---------------------------- MODULE Spec2Model ----------------------------
(***************************************************************************)
(* Superstore dashboard (src/app.py): a Streamlit script that is re-run    *)
(* from top to bottom for every page view of every session.  Each run      *)
(* loads the transaction table through the process-wide st.cache_data      *)
(* cache and then renders exactly one page, whose tables are computed with *)
(* pandas.  The model keeps the tables as sequences of records and the     *)
(* pandas calls as operators that compute what the calls compute.          *)
(*                                                                         *)
(* Amounts are integers (Sales, Profit in currency units, Discount in      *)
(* hundredths); the cluster table keeps every metric in hundredths so      *)
(* that round(2) is a rounding to an integer.                              *)
(***************************************************************************)
EXTENDS Integers, Sequences, FiniteSets, TLC

VARIABLES
    source,     \* rows of data/Superstore.csv
    cache,      \* the st.cache_data entry of load_data: NoData or a table
    lock,       \* holder of the cache's compute lock, or NoSession
    reads,      \* number of times load_data's body has read the source
    pc,         \* per session: where its script run stands
    df,         \* per session: the module-level df of the running script
    warnings,   \* warning-level diagnostics reported so far
    view        \* the page on its way to the browser (NoView if none)

vars == <<source, cache, lock, reads, pc, df, warnings, view>>

---------------------------------------------------------------------------
(* Bounds of the model *)

MaxRecords == 3

MaxForecast == 6

MaxClusterRows == 3

MaxReads == 3

Sessions == {"s1", "s2"}

NoSession == "none"

NoData == [loaded |-> FALSE]

NoView == [page |-> "none"]

NaN == "NaN"

---------------------------------------------------------------------------
(* Inputs: the rows the three csv files may hold *)

Date(y, m, d) == [y |-> y, m |-> m, d |-> d]

SampleRecords ==
    { [OrderID |-> "CA-1", OrderDate |-> Date(2014, 1, 15),
       Category |-> "Technology", SubCategory |-> "Phones",
       Region |-> "West", Segment |-> "Consumer",
       Sales |-> 100, Profit |-> 20, Discount |-> 0, Quantity |-> 2],
      [OrderID |-> "CA-1", OrderDate |-> Date(2014, 3, 5),
       Category |-> "Furniture", SubCategory |-> "Chairs",
       Region |-> "East", Segment |-> "Consumer",
       Sales |-> 100, Profit |-> -10, Discount |-> 20, Quantity |-> 1],
      [OrderID |-> "CA-2", OrderDate |-> Date(2015, 2, 10),
       Category |-> "Furniture", SubCategory |-> "Tables",
       Region |-> "West", Segment |-> "Corporate",
       Sales |-> 50, Profit |-> 5, Discount |-> 10, Quantity |-> 3],
      [OrderID |-> "CA-3", OrderDate |-> Date(2014, 1, 31),
       Category |-> "Technology", SubCategory |-> "Chairs",
       Region |-> NaN, Segment |-> "Home Office",
       Sales |-> 30, Profit |-> 7, Discount |-> 0, Quantity |-> 4] }

SampleForecast ==
    { [ds |-> Date(2018, 1, 31), yhat |-> 50, yhat_lower |-> 40, yhat_upper |-> 60],
      [ds |-> Date(2018, 2, 28), yhat |-> 50, yhat_lower |-> 55, yhat_upper |-> 60] }

SampleClusters ==
    { [Cluster |-> 0, Sales |-> 100, Profit |-> 20, Discount |-> 0, Quantity |-> 100],
      [Cluster |-> 0, Sales |-> 101, Profit |-> -25, Discount |-> 15, Quantity |-> 200],
      [Cluster |-> 4, Sales |-> 50, Profit |-> 5, Discount |-> 10, Quantity |-> 200] }

SeqsUpTo(S, n) == UNION { [1..k -> S] : k \in 0..n }

---------------------------------------------------------------------------
(* Column helpers *)

Max(a, b) == IF a >= b THEN a ELSE b

Min(a, b) == IF a <= b THEN a ELSE b

\* Series.sum(): 0 on an empty column
RECURSIVE Sum(_)
Sum(col) == IF col = <<>> THEN 0 ELSE Head(col) + Sum(Tail(col))

Column(rows, name) == [i \in 1..Len(rows) |-> rows[i][name]]

\* Series.nunique(): number of distinct non-null values, counted in one pass
RECURSIVE Distinct(_, _)
Distinct(col, seen) ==
    IF col = <<>> THEN seen
    ELSE Distinct(Tail(col), IF Head(col) = NaN THEN seen ELSE seen \cup {Head(col)})

\* Series.count(): the number of non-null cells
count(col) == Len(SelectSeq(col, LAMBDA v : v # NaN))

nunique(col) == Cardinality(Distinct(col, {}))

\* lines 151-154: the four KPIs of the Overview page
total_sales(rows) == Sum(Column(rows, "Sales"))

total_profit(rows) == Sum(Column(rows, "Profit"))

\* .count() in place of .nunique()
total_orders_count(rows) == count(Column(rows, "OrderID"))

total_orders(rows) == nunique(Column(rows, "OrderID"))

total_quantity(rows) == Sum(Column(rows, "Quantity"))

\* the strings of the data in lexicographic order
Alphabet ==
    <<"CA-1", "CA-2", "CA-3", "Chairs", "Consumer", "Corporate", "East",
      "Furniture", "Home Office", "Phones", "Tables", "Technology", "West">>

Rank(str) == CHOOSE i \in 1..Len(Alphabet) : Alphabet[i] = str

DateOrd(dt) == (dt.y * 12 + (dt.m - 1)) * 31 + (dt.d - 1)


\* an enumeration of a finite set, in no particular order
RECURSIVE SetToSeq(_)
SetToSeq(S) ==
    IF S = {} THEN <<>>
    ELSE LET x == CHOOSE e \in S : TRUE IN <<x>> \o SetToSeq(S \ {x})

\* lexicographic order on tuples of strings (a one- or two-column group key)
RECURSIVE StrKeyLess(_, _)
StrKeyLess(k1, k2) ==
    /\ k1 # <<>>
    /\ \/ Rank(Head(k1)) < Rank(Head(k2))
       \/ /\ Head(k1) = Head(k2)
          /\ StrKeyLess(Tail(k1), Tail(k2))

\* chronological order on one-column keys holding a date
DateKeyLess(k1, k2) == DateOrd(k1[1]) < DateOrd(k2[1])

KeyOf(row, by) == [i \in 1..Len(by) |-> row[by[i]]]

\* the text columns, which hold NaN where the file has an empty cell (the
\* files of the model have a date in every row)
TextColumns == {"OrderID", "Category", "SubCategory", "Region", "Segment"}

isna(row, col) == col \in TextColumns /\ row[col] = NaN

HasNullKey(row, by) == \E i \in 1..Len(by) : isna(row, by[i])

\* rows[mask]: the rows at which the boolean mask is true, in their order
RECURSIVE BoolIndex(_, _)
BoolIndex(rows, mask) ==
    IF rows = <<>> THEN <<>>
    ELSE (IF Head(mask) THEN <<Head(rows)>> ELSE <<>>)
         \o BoolIndex(Tail(rows), Tail(mask))

\* order of two group keys: chronological for a date column, lexicographic
\* for text columns
KeyLess(k1, k2, dtype) ==
    IF dtype = "datetime" THEN DateKeyLess(k1, k2) ELSE StrKeyLess(k1, k2)

\* the aggregate of one column of one group
Aggregate(col, how) == IF how = "first" THEN Head(col) ELSE Sum(col)

\* df.groupby(by)[vals].agg(how).reset_index(): sort=True and dropna=True
\* are the defaults, so the groups are the distinct non-null keys in
\* ascending key order, each with the aggregate of its rows
GroupBy(rows, by, vals, dtype, how) ==
    LET kept == BoolIndex(rows, [i \in 1..Len(rows) |-> ~HasNullKey(rows[i], by)])
        keys == SortSeq(SetToSeq({ KeyOf(kept[i], by) : i \in 1..Len(kept) }),
                        LAMBDA k1, k2 : KeyLess(k1, k2, dtype))
        grp(k) == BoolIndex(kept, [i \in 1..Len(kept) |-> KeyOf(kept[i], by) = k])
    IN  [g \in 1..Len(keys) |->
            [key |-> keys[g]] @@ [c \in vals |-> Aggregate(Column(grp(keys[g]), c), how)]]

\* the groups in the order their keys first occur (groupby(..., sort=False))
RECURSIVE FirstSeen(_, _, _)
FirstSeen(rows, by, seen) ==
    IF rows = <<>> THEN <<>>
    ELSE LET k == KeyOf(Head(rows), by)
         IN  IF HasNullKey(Head(rows), by) \/ k \in seen
             THEN FirstSeen(Tail(rows), by, seen)
             ELSE <<k>> \o FirstSeen(Tail(rows), by, seen \cup {k})

\* .first() in place of .sum()
group_summary_first(rows, by) ==
    GroupBy(rows, by, {"Sales", "Profit"}, "object", "first")

\* a grand-total row appended to the summary
group_summary_with_total(rows, by) ==
    Append(GroupBy(rows, by, {"Sales", "Profit"}, "object", "sum"),
           [key |-> <<"Total">>, Sales |-> Sum(Column(rows, "Sales")),
            Profit |-> Sum(Column(rows, "Profit"))])

\* groupby(..., sort=False): groups in first-seen order
group_summary_unsorted(rows, by) ==
    LET keys == FirstSeen(rows, by, {})
        grp(k) == BoolIndex(rows, [i \in 1..Len(rows) |->
                      ~HasNullKey(rows[i], by) /\ KeyOf(rows[i], by) = k])
    IN  [g \in 1..Len(keys) |->
            [key |-> keys[g]] @@
            [c \in {"Sales", "Profit"} |-> Sum(Column(grp(keys[g]), c))]]

\* df.groupby(by)[['Sales', 'Profit']].sum().reset_index()
group_summary(rows, by) == GroupBy(rows, by, {"Sales", "Profit"}, "object", "sum")

\* DataFrame.sort_values(by='Sales', ascending=False): the default kind is
\* quicksort, which is not stable, so any descending arrangement of the
\* rows may come out
sort_values(table) ==
    { [i \in 1..Len(table) |-> table[p[i]]] : p \in
        { q \in Permutations(1..Len(table)) :
            \A i \in 1..(Len(table) - 1) : table[q[i]].Sales >= table[q[i + 1]].Sales } }

---------------------------------------------------------------------------
(* Calendar *)

MonthIndex(dt) == dt.y * 12 + (dt.m - 1)

IsLeap(y) == (y % 4 = 0 /\ y % 100 # 0) \/ y % 400 = 0

DaysInMonth(y, m) ==
    IF m = 2 THEN (IF IsLeap(y) THEN 29 ELSE 28)
    ELSE IF m \in {4, 6, 9, 11} THEN 30 ELSE 31

\* label of a freq='M' bin: the last day of the month
MonthEnd(idx) == Date(idx \div 12, (idx % 12) + 1, DaysInMonth(idx \div 12, (idx % 12) + 1))

\* .dt.to_period('M').dt.to_timestamp(): the first day of the month
OrderMonth(dt) == Date(dt.y, dt.m, 1)

\* .dt.year
Year(dt) == dt.y

\* df.groupby(pd.Grouper(key='Order Date', freq='M'))['Sales'].sum().reset_index():
\* a resampling, one bin per calendar month from the first to the last order
\* month; a bin without rows sums to 0
monthly_sales(rows) ==
    IF rows = <<>> THEN <<>>
    ELSE LET idx == { MonthIndex(rows[i].OrderDate) : i \in 1..Len(rows) }
             lo == CHOOSE a \in idx : \A b \in idx : a <= b
             hi == CHOOSE a \in idx : \A b \in idx : a >= b
             bin(n) == BoolIndex(rows,
                          [i \in 1..Len(rows) |-> MonthIndex(rows[i].OrderDate) = n])
         IN  [j \in 1..(hi - lo + 1) |->
                [OrderDate |-> MonthEnd(lo + j - 1),
                 Sales |-> Sum(Column(bin(lo + j - 1), "Sales"))]]

\* lines 195 and 197: the two derived columns the Trends page adds to df
with_month_and_year(rows) ==
    [i \in 1..Len(rows) |->
        rows[i] @@ [OrderMonth |-> OrderMonth(rows[i].OrderDate),
                    Year |-> Year(rows[i].OrderDate)]]

\* groupby('Order Month')[['Sales', 'Profit', 'Discount']].sum().reset_index()
monthly(rows) ==
    GroupBy(rows, <<"OrderMonth">>, {"Sales", "Profit", "Discount"}, "datetime", "sum")

\* sorted(df['Year'].unique())
unique_years(rows) ==
    SortSeq(SetToSeq({ rows[i].Year : i \in 1..Len(rows) }), <)

None == 0

\* >= in place of ==
filter_from_year(rows, selected_year) ==
    BoolIndex(rows, [i \in 1..Len(rows) |-> rows[i].Year >= selected_year])

\* df[df['Year'] == selected_year]
filter_by_year(rows, selected_year) ==
    BoolIndex(rows, [i \in 1..Len(rows) |-> rows[i].Year = selected_year])

---------------------------------------------------------------------------
(* Forecasting page *)

TailN == 5

\* .head(n) in place of .tail(n)
head(rows, n) == SubSeq(rows, 1, Min(n, Len(rows)))

\* DataFrame.tail(n): iloc[-n:], or no row when n = 0; the slice start is
\* clamped to the first row
tail(rows, n) ==
    IF n = 0 THEN <<>>
    ELSE SubSeq(rows, Max(1, Len(rows) - n + 1), Len(rows))

\* [['ds', 'yhat', 'yhat_lower', 'yhat_upper']].rename(columns={...})
rename(rows) ==
    [i \in 1..Len(rows) |->
        [Date |-> rows[i].ds, Forecast |-> rows[i].yhat,
         LowerBound |-> rows[i].yhat_lower, UpperBound |-> rows[i].yhat_upper]]

---------------------------------------------------------------------------
(* Clustering page *)

Decimals == 2

cluster_labels ==
    (0 :> "Regular Customers") @@ (1 :> "VIPs - High Value Clients")
    @@ (2 :> "Medium Segment - Stable") @@ (3 :> "Risky - Discount Loss Group")

RECURSIVE Pow10(_)
Pow10(n) == IF n = 0 THEN 1 ELSE 10 * Pow10(n - 1)

\* floor of num / den for den > 0
FloorDiv(num, den) ==
    IF num >= 0 THEN num \div den ELSE -((-num + den - 1) \div den)

\* round(decimals) of the quotient num / den of two amounts kept in
\* hundredths: numpy rounds the scaled value half to even.  The result is
\* in units of 10^-decimals.
round(num, den, decimals) ==
    LET n == num * Pow10(decimals)
        d == den * 100
        q == FloorDiv(n, d)
        r == n - q * d
    IN  IF 2 * r < d THEN q
        ELSE IF 2 * r > d THEN q + 1
        ELSE IF q % 2 = 0 THEN q ELSE q + 1

\* the mean cut off after the second decimal instead of rounded
mean_floor(col) == FloorDiv(Sum(col), Len(col))

\* Series.mean() of a non-empty column, then .round(2)
mean_round(col) == round(Sum(col), Len(col), Decimals)

\* Series.map(dict): the value of the key, NaN for a key the dict lacks
map(id, labels) == IF id \in DOMAIN labels THEN labels[id] ELSE NaN

\* lines 470-485: groupby('Cluster').agg(mean).round(2).reset_index(), then
\* the Interpretation column
summarize(rows) ==
    LET ids == SortSeq(SetToSeq({ rows[i].Cluster : i \in 1..Len(rows) }), <)
        grp(k) == BoolIndex(rows, [i \in 1..Len(rows) |-> rows[i].Cluster = k])
    IN  [g \in 1..Len(ids) |->
            [Cluster |-> ids[g],
             Sales |-> mean_round(Column(grp(ids[g]), "Sales")),
             Profit |-> mean_round(Column(grp(ids[g]), "Profit")),
             Discount |-> mean_round(Column(grp(ids[g]), "Discount")),
             Quantity |-> mean_round(Column(grp(ids[g]), "Quantity")),
             Interpretation |-> map(ids[g], cluster_labels)]]

---------------------------------------------------------------------------
(* load_data and its cache *)

\* pd.read_csv("data/Superstore.csv", ...): the table of the file's rows
read_csv(rows) == [loaded |-> TRUE, rows |-> rows]

\* load_data without its decorator: no entry is ever found
read_result_undecorated(entry) == NoData

\* @st.cache_data: the lookup of load_data's entry; a hit hands out a copy
read_result(entry) == entry

Init ==
    /\ source \in SeqsUpTo(SampleRecords, MaxRecords)
    /\ cache = NoData
    /\ lock = NoSession
    /\ reads = 0
    /\ pc = [s \in Sessions |-> "idle"]
    /\ df = [s \in Sessions |-> NoData]
    /\ warnings = <<>>
    /\ view = NoView

\* a rerun of the script up to the call of load_data on line 142: a cache
\* hit returns at once, a miss goes on to the cache's compute lock
StartRun(s) ==
    /\ view = NoView
    /\ pc[s] = "idle"
    /\ IF read_result(cache).loaded
       THEN /\ df' = [df EXCEPT ![s] = read_result(cache)]
            /\ pc' = [pc EXCEPT ![s] = "page"]
       ELSE /\ pc' = [pc EXCEPT ![s] = "miss"]
            /\ UNCHANGED df
    /\ UNCHANGED view
    /\ UNCHANGED <<source, cache, lock, reads, warnings>>

\* the miss path takes the compute lock of the entry
AcquireLock(s) ==
    /\ view = NoView
    /\ pc[s] = "miss"
    /\ lock = NoSession
    /\ lock' = s
    /\ pc' = [pc EXCEPT ![s] = "locked"]
    /\ UNCHANGED view
    /\ UNCHANGED <<source, cache, reads, df, warnings>>

\* under the lock: look the entry up again; only if it is still missing
\* run load_data's body (lines 139-140) and store what it returns
FillCache(s) ==
    /\ view = NoView
    /\ pc[s] = "locked"
    /\ IF read_result(cache).loaded
       THEN /\ df' = [df EXCEPT ![s] = read_result(cache)]
            /\ UNCHANGED <<cache, reads>>
       ELSE /\ reads < MaxReads
            /\ reads' = reads + 1
            /\ cache' = read_csv(source)
            /\ df' = [df EXCEPT ![s] = read_csv(source)]
    /\ lock' = NoSession
    /\ pc' = [pc EXCEPT ![s] = "page"]
    /\ UNCHANGED view
    /\ UNCHANGED <<source, warnings>>

\* a cache that hands out the cached object itself (st.cache_resource):
\* a write to df is a write to the entry
entry_shared_with_caller(entry, frame) == frame

\* a write to the run's df, frame being df after it: st.cache_data keeps
\* the entry pickled and hands every caller its own copy, so the entry
\* stays as it is
entry_after_setitem(entry, frame) == entry

\* the end of a script run: the page goes out to the browser; the run's df,
\* as the page left it, stays bound until the next run rebinds it on line
\* 142.  view is the one-slot channel to the browser: a step waits until
\* the page before it has been taken.
Finished(s, page, frame) ==
    /\ view = NoView
    /\ view' = page
    /\ pc' = [pc EXCEPT ![s] = "idle"]
    /\ df' = [df EXCEPT ![s] = frame]
    /\ UNCHANGED <<source, lock, reads, warnings>>

\* the end of the run of a page that only reads df
Rendered(s, page) ==
    /\ Finished(s, page, df[s])
    /\ UNCHANGED cache

---------------------------------------------------------------------------
(* The pages: each action is one branch of the if/elif chain on `page` *)

\* lines 148-185
Overview(s) ==
    /\ pc[s] = "page"
    /\ LET rows == df[s].rows
       IN  Rendered(s, [page |-> "Overview",
                        total_sales |-> total_sales(rows),
                        total_profit |-> total_profit(rows),
                        total_orders |-> total_orders(rows),
                        total_quantity |-> total_quantity(rows),
                        monthly_sales |-> monthly_sales(rows)])

\* lines 190-255; lines 195 and 197 write the two derived columns into df
\* itself; selected_year is the user's choice among unique_years (None when
\* there is no year to choose)
Trends(s) ==
    /\ pc[s] = "page"
    /\ LET rows == with_month_and_year(df[s].rows)
           years == unique_years(rows)
       IN  \E selected_year \in
                (IF years = <<>> THEN {None} ELSE { years[i] : i \in 1..Len(years) }) :
              LET filtered_df == filter_by_year(rows, selected_year)
              IN  /\ Finished(s, [page |-> "Trends",
                                  monthly |-> monthly(rows),
                                  unique_years |-> years,
                                  selected_year |-> selected_year,
                                  filtered_df |-> filtered_df,
                                  monthly_year |-> monthly(filtered_df)],
                              [df[s] EXCEPT !.rows = rows])
                  /\ cache' = entry_after_setitem(cache, [df[s] EXCEPT !.rows = rows])

\* lines 260-301
Category(s) ==
    /\ pc[s] = "page"
    /\ LET rows == df[s].rows
           subcat_summary == group_summary(rows, <<"Category", "SubCategory">>)
       IN  \E shown \in sort_values(subcat_summary) :
              Rendered(s, [page |-> "Category",
                           cat_summary |-> group_summary(rows, <<"Category">>),
                           subcat_summary |-> subcat_summary,
                           table |-> shown])

\* lines 307-347
Region(s) ==
    /\ pc[s] = "page"
    /\ LET region_summary == group_summary(df[s].rows, <<"Region">>)
       IN  \E shown \in sort_values(region_summary) :
              Rendered(s, [page |-> "Region",
                           region_summary |-> region_summary,
                           table |-> shown])

\* lines 352-392
Segment(s) ==
    /\ pc[s] = "page"
    /\ LET segment_summary == group_summary(df[s].rows, <<"Segment">>)
       IN  \E shown \in sort_values(segment_summary) :
              Rendered(s, [page |-> "Segment",
                           segment_summary |-> segment_summary,
                           table |-> shown])

\* lines 398-445: the forecast file is read anew by every run, whatever
\* its rows are; nothing is checked and nothing is reported
Forecasting(s) ==
    /\ pc[s] = "page"
    /\ \E forecast_data \in SeqsUpTo(SampleForecast, MaxForecast) :
          Rendered(s, [page |-> "Forecasting",
                       forecast_data |-> forecast_data,
                       table |-> rename(tail(forecast_data, TailN))])

\* lines 451-489: the cluster file is read anew by every run
Clustering(s) ==
    /\ pc[s] = "page"
    /\ \E cluster_df \in SeqsUpTo(SampleClusters, MaxClusterRows) :
          Rendered(s, [page |-> "Clustering",
                       cluster_df |-> cluster_df,
                       summary_df |-> summarize(cluster_df)])

\* lines 494-563: static text
Report(s) ==
    /\ pc[s] = "page"
    /\ Rendered(s, [page |-> "Report"])

\* lines 567-617: static text
Introduction(s) ==
    /\ pc[s] = "page"
    /\ Rendered(s, [page |-> "Introduction"])

\* the browser takes the page that was sent
Deliver ==
    /\ view # NoView
    /\ view' = NoView
    /\ UNCHANGED <<source, cache, lock, reads, pc, df, warnings>>

RunStep ==
    \E s \in Sessions :
        \/ StartRun(s)
        \/ AcquireLock(s)
        \/ FillCache(s)
        \/ Overview(s)
        \/ Trends(s)
        \/ Category(s)
        \/ Region(s)
        \/ Segment(s)
        \/ Forecasting(s)
        \/ Clustering(s)
        \/ Report(s)
        \/ Introduction(s)

Next == RunStep \/ Deliver

Spec == Init /\ [][Next]_vars

---------------------------------------------------------------------------
(* Properties *)

\* the loaded table, as every page sees it
Loaded == cache.rows

\* sum of a column of a table, row by row from the last
RECURSIVE ColumnTotal(_, _, _)
ColumnTotal(table, name, n) ==
    IF n = 0 THEN 0 ELSE table[n][name] + ColumnTotal(table, name, n - 1)

Complete(rows, col) == \A i \in 1..Len(rows) : rows[i][col] # NaN

Conserves(summary, rows) ==
    /\ ColumnTotal(summary, "Sales", Len(summary)) = total_sales(rows)
    /\ ColumnTotal(summary, "Profit", Len(summary)) = total_profit(rows)

\* C1: when every record has a category (a region, a segment), the Sales
\* of the rows of the summary by Category (by Region, by Segment) add up to
\* the total_sales KPI of the same records, and the Profit to total_profit.
C1_Conservation ==
    /\ (view.page = "Category" /\ Complete(Loaded, "Category"))
          => Conserves(view.cat_summary, Loaded)
    /\ (view.page = "Region" /\ Complete(Loaded, "Region"))
          => Conserves(view.region_summary, Loaded)
    /\ (view.page = "Segment" /\ Complete(Loaded, "Segment"))
          => Conserves(view.segment_summary, Loaded)

C1_Witness ==
    /\ view.page = "Region"
    /\ Complete(Loaded, "Region")
    /\ Len(Loaded) = MaxRecords
    /\ Len(view.region_summary) = 2

HasRecordIn(rows, y, m) ==
    \E i \in 1..Len(rows) : rows[i].OrderDate.y = y /\ rows[i].OrderDate.m = m

\* C2: every month of a monthly series the program produces has at least
\* one contributing record: the Overview monthly sales series and both
\* Trends series omit the months without records.
C2_EmptyBucketsOmitted ==
    /\ view.page = "Overview" =>
          \A j \in 1..Len(view.monthly_sales) :
             HasRecordIn(Loaded, view.monthly_sales[j].OrderDate.y,
                         view.monthly_sales[j].OrderDate.m)
    /\ view.page = "Trends" =>
          /\ \A j \in 1..Len(view.monthly) :
                HasRecordIn(Loaded, view.monthly[j].key[1].y, view.monthly[j].key[1].m)
          /\ \A j \in 1..Len(view.monthly_year) :
                HasRecordIn(Loaded, view.monthly_year[j].key[1].y,
                            view.monthly_year[j].key[1].m)

\* C3: total_orders is the number of distinct Order ID values, not the
\* number of rows; total_sales, total_profit and total_quantity are sums
\* over all rows.
C3_DistinctOrders ==
    view.page = "Overview" =>
       /\ view.total_orders = Cardinality({ Loaded[i].OrderID : i \in 1..Len(Loaded) })
       /\ view.total_sales = ColumnTotal(Loaded, "Sales", Len(Loaded))
       /\ view.total_profit = ColumnTotal(Loaded, "Profit", Len(Loaded))
       /\ view.total_quantity = ColumnTotal(Loaded, "Quantity", Len(Loaded))

C3_Witness ==
    /\ view.page = "Overview"
    /\ Len(Loaded) = 2
    /\ Loaded[1].OrderID = Loaded[2].OrderID
    /\ Loaded[1] # Loaded[2]
    /\ view.total_orders = 1
    /\ view.total_sales = Loaded[1].Sales + Loaded[2].Sales

Original(row) == [f \in DOMAIN row \ {"OrderMonth", "Year"} |-> row[f]]

\* the records of rows whose order date lies in year y, in their order
RECURSIVE RecordsOfYear(_, _)
RecordsOfYear(rows, y) ==
    IF rows = <<>> THEN <<>>
    ELSE (IF Head(rows).OrderDate.y = y THEN <<Head(rows)>> ELSE <<>>)
         \o RecordsOfYear(Tail(rows), y)

YearsTried == 2013..2016

\* C5: filter_by_year(records, Y) is exactly the records whose order date
\* has year Y, in their original order, and is empty when there is none;
\* the monthly trend of the filtered records holds only months of year Y,
\* each with the sums that month has in the unfiltered monthly trend.
C5_FilterByYear ==
    view.page = "Trends" =>
       /\ [i \in 1..Len(view.filtered_df) |-> Original(view.filtered_df[i])]
             = RecordsOfYear(Loaded, view.selected_year)
       /\ \A y \in YearsTried :
             LET got == filter_by_year(with_month_and_year(Loaded), y)
             IN  [i \in 1..Len(got) |-> Original(got[i])] = RecordsOfYear(Loaded, y)
       /\ \A j \in 1..Len(view.monthly_year) :
             /\ view.monthly_year[j].key[1].y = view.selected_year
             /\ \E k \in 1..Len(view.monthly) : view.monthly[k] = view.monthly_year[j]
       /\ \A k \in 1..Len(view.monthly) :
             view.monthly[k].key[1].y = view.selected_year
                => \E j \in 1..Len(view.monthly_year) :
                      view.monthly_year[j] = view.monthly[k]

C5_Witness ==
    /\ view.page = "Trends"
    /\ Len(Loaded) = 3
    /\ Len(view.filtered_df) = 2
    /\ Len(view.monthly_year) = 2
    /\ Len(view.monthly) = 3
    /\ RecordsOfYear(Loaded, 2016) = <<>>
    /\ Loaded[2].OrderDate.y # view.selected_year

\* rows of the cluster table with cluster id k
ClusterRows(table, k) == SelectSeq(table, LAMBDA r : r.Cluster = k)

OneRowPerCluster(summary, table) ==
    /\ { summary[g].Cluster : g \in 1..Len(summary) }
          = { table[i].Cluster : i \in 1..Len(table) }
    /\ \A g, h \in 1..Len(summary) : summary[g].Cluster = summary[h].Cluster => g = h

Labelled(summary) ==
    \A g \in 1..Len(summary) :
       summary[g].Interpretation =
          (IF summary[g].Cluster \in 0..3
           THEN cluster_labels[summary[g].Cluster] ELSE NaN)

Metrics == {"Sales", "Profit", "Discount", "Quantity"}

Abs(x) == IF x >= 0 THEN x ELSE -x

\* v is the exact mean of the column
IsMean(v, col) == v * Len(col) = Sum(col)

\* v (in hundredths) is the mean of the column rounded to two decimals,
\* a mean half-way between two hundredths going to the even one
IsRoundedMean(v, col) ==
    /\ 2 * Abs(v * Len(col) - Sum(col)) <= Len(col)
    /\ 2 * Abs(v * Len(col) - Sum(col)) = Len(col) => v % 2 = 0

\* C6 as stated: one row per distinct cluster id, carrying the per-cluster
\* mean of Sales, Profit, Discount and Quantity and the label of the
\* mapping, a null label for an id the mapping lacks.
C6_ExactMeans ==
    view.page = "Clustering" =>
       /\ OneRowPerCluster(view.summary_df, view.cluster_df)
       /\ Labelled(view.summary_df)
       /\ \A g \in 1..Len(view.summary_df) : \A c \in Metrics :
             IsMean(view.summary_df[g][c],
                    Column(ClusterRows(view.cluster_df, view.summary_df[g].Cluster), c))

\* C6 amended: one row per distinct cluster id, carrying the per-cluster
\* mean of each metric rounded to two decimals and the label of the
\* mapping, a null label for an id the mapping lacks.
C6_RoundedMeans ==
    view.page = "Clustering" =>
       /\ OneRowPerCluster(view.summary_df, view.cluster_df)
       /\ Labelled(view.summary_df)
       /\ \A g \in 1..Len(view.summary_df) : \A c \in Metrics :
             IsRoundedMean(view.summary_df[g][c],
                    Column(ClusterRows(view.cluster_df, view.summary_df[g].Cluster), c))

C6_Witness ==
    /\ view.page = "Clustering"
    /\ Len(view.cluster_df) = 3
    /\ Len(view.summary_df) = 2
    /\ \E g \in 1..2 : view.summary_df[g].Cluster = 4 /\ view.summary_df[g].Interpretation = NaN
    /\ \E g \in 1..2 :
          /\ view.summary_df[g].Cluster = 0
          /\ view.summary_df[g].Interpretation = cluster_labels[0]
          /\ ~IsMean(view.summary_df[g].Profit,
                     Column(ClusterRows(view.cluster_df, 0), "Profit"))

\* the last Min(n, Len(rows)) rows of rows, in their order
IsTail(out, rows, n) ==
    LET k == IF n <= Len(rows) THEN n ELSE Len(rows)
    IN  /\ Len(out) = k
        /\ \A i \in 1..k : out[i] = rows[Len(rows) - k + i]

\* C7: tail(forecast, n) is the last n rows in their original order when n
\* does not exceed the row count and all rows when it does; the forecast
\* table of the page is tail with n = 5.
C7_Tail ==
    view.page = "Forecasting" =>
       /\ \A n \in 0..(MaxForecast + 2) : IsTail(tail(view.forecast_data, n), view.forecast_data, n)
       /\ Len(view.table) = (IF Len(view.forecast_data) >= 5 THEN 5 ELSE Len(view.forecast_data))
       /\ \A i \in 1..Len(view.table) :
             LET row == view.forecast_data[Len(view.forecast_data) - Len(view.table) + i]
             IN  /\ view.table[i].Date = row.ds
                 /\ view.table[i].Forecast = row.yhat
                 /\ view.table[i].LowerBound = row.yhat_lower
                 /\ view.table[i].UpperBound = row.yhat_upper

C7_Witness ==
    /\ view.page = "Forecasting"
    /\ Len(view.forecast_data) = 6
    /\ Len(view.table) = 5
    /\ view.forecast_data[1] # view.forecast_data[2]
    /\ view.table[1].Date = view.forecast_data[2].ds
    /\ tail(view.forecast_data, 7) = view.forecast_data

\* C8: the source is read at most once, however the runs of the sessions
\* interleave; once the entry is filled it holds the table of the source
\* and every call of load_data returns it without another read.
C8_LoadedOnce ==
    /\ reads <= 1
    /\ cache.loaded => (reads = 1 /\ cache = read_csv(source))
    /\ \A s \in Sessions : pc[s] = "page" => df[s] = cache

\* two sessions missed the empty cache; one has filled it and the other,
\* still on the miss path, is about to take the lock
C8_Witness ==
    /\ reads = 1
    /\ cache.loaded
    /\ \E s, u \in Sessions : pc[s] = "page" /\ pc[u] = "miss"

IntervalOrdered(row) == row.yhat_lower <= row.yhat /\ row.yhat <= row.yhat_upper

DatesIncreasing(rows) ==
    \A i \in 1..(Len(rows) - 1) : DateOrd(rows[i].ds) < DateOrd(rows[i + 1].ds)

\* C9: when a forecast row breaks lower <= point <= upper, or the dates do
\* not increase, a warning is reported, and the whole table is still shown.
C9_ViolationsWarned ==
    (/\ view.page = "Forecasting"
     /\ \/ \E i \in 1..Len(view.forecast_data) : ~IntervalOrdered(view.forecast_data[i])
        \/ ~DatesIncreasing(view.forecast_data))
       => warnings # <<>>

Keys(summary) == [g \in 1..Len(summary) |-> summary[g].key]

Descending(table) ==
    \A i \in 1..(Len(table) - 1) : table[i].Sales >= table[i + 1].Sales

\* table holds the rows of summary, each once
Rearranged(table, summary) ==
    /\ Len(table) = Len(summary)
    /\ \A g \in 1..Len(summary) :
          Cardinality({ i \in 1..Len(table) : table[i] = summary[g] }) = 1

\* among rows with equal Sales, the order of summary is kept
TiesKeepOrder(table, summary) ==
    \A i, j \in 1..Len(table) :
       (i < j /\ table[i].Sales = table[j].Sales) =>
          \E g, h \in 1..Len(summary) :
             g < h /\ summary[g] = table[i] /\ summary[h] = table[j]

\* C10 as stated: the groups of a summary come in the order their keys
\* first occur in the records; sorted by Sales the table is descending and
\* groups with equal Sales keep their first-seen order.
C10_FirstSeenOrder ==
    /\ view.page = "Category" =>
          /\ Keys(view.cat_summary) = FirstSeen(Loaded, <<"Category">>, {})
          /\ Keys(view.subcat_summary) = FirstSeen(Loaded, <<"Category", "SubCategory">>, {})
          /\ Descending(view.table)
          /\ TiesKeepOrder(view.table, view.subcat_summary)
    /\ view.page = "Region" =>
          /\ Keys(view.region_summary) = FirstSeen(Loaded, <<"Region">>, {})
          /\ Descending(view.table)
          /\ TiesKeepOrder(view.table, view.region_summary)
    /\ view.page = "Segment" =>
          /\ Keys(view.segment_summary) = FirstSeen(Loaded, <<"Segment">>, {})
          /\ Descending(view.table)
          /\ TiesKeepOrder(view.table, view.segment_summary)

\* the keys are the distinct non-null keys of the records, smallest first
AscendingKeys(summary, rows, by) ==
    /\ { summary[g].key : g \in 1..Len(summary) }
          = { KeyOf(rows[i], by) : i \in { n \in 1..Len(rows) : ~HasNullKey(rows[n], by) } }
    /\ \A g \in 1..(Len(summary) - 1) :
          \E c \in 1..Len(by) :
             /\ \A b \in 1..(c - 1) : summary[g].key[b] = summary[g + 1].key[b]
             /\ Rank(summary[g].key[c]) < Rank(summary[g + 1].key[c])

\* C10 amended: the groups of a summary come in ascending order of their
\* key (for the pair, by category and then by sub-category), whatever the
\* order of the records; sorted by Sales the table holds the same rows in
\* descending Sales order (groups with equal Sales in no fixed order).
C10_KeyOrder ==
    /\ view.page = "Category" =>
          /\ AscendingKeys(view.cat_summary, Loaded, <<"Category">>)
          /\ AscendingKeys(view.subcat_summary, Loaded, <<"Category", "SubCategory">>)
          /\ Rearranged(view.table, view.subcat_summary)
          /\ Descending(view.table)
    /\ view.page = "Region" =>
          /\ AscendingKeys(view.region_summary, Loaded, <<"Region">>)
          /\ Rearranged(view.table, view.region_summary)
          /\ Descending(view.table)
    /\ view.page = "Segment" =>
          /\ AscendingKeys(view.segment_summary, Loaded, <<"Segment">>)
          /\ Rearranged(view.table, view.segment_summary)
          /\ Descending(view.table)

\* West is seen before East, both with the same Sales, and the sorted
\* table shows them in the other order than the summary
C10_Witness ==
    /\ view.page = "Region"
    /\ Len(view.region_summary) = 2
    /\ Keys(view.region_summary) # FirstSeen(Loaded, <<"Region">>, {})
    /\ view.region_summary[1].Sales = view.region_summary[2].Sales
    /\ view.table # view.region_summary

\* what load_data returns for the source as it is
Fresh == read_csv(source)

\* the page is what the same page computes on a freshly loaded table
AsOnFresh(page) ==
    /\ page.page = "Overview" =>
          /\ page.total_sales = total_sales(Fresh.rows)
          /\ page.total_profit = total_profit(Fresh.rows)
          /\ page.total_orders = total_orders(Fresh.rows)
          /\ page.total_quantity = total_quantity(Fresh.rows)
          /\ page.monthly_sales = monthly_sales(Fresh.rows)
    /\ page.page = "Trends" =>
          /\ page.monthly = monthly(with_month_and_year(Fresh.rows))
          /\ page.filtered_df =
                filter_by_year(with_month_and_year(Fresh.rows), page.selected_year)
          /\ page.monthly_year = monthly(page.filtered_df)
    /\ page.page = "Category" =>
          /\ page.cat_summary = group_summary(Fresh.rows, <<"Category">>)
          /\ page.subcat_summary = group_summary(Fresh.rows, <<"Category", "SubCategory">>)
    /\ page.page = "Region" =>
          page.region_summary = group_summary(Fresh.rows, <<"Region">>)
    /\ page.page = "Segment" =>
          page.segment_summary = group_summary(Fresh.rows, <<"Segment">>)

\* C11 as stated: nothing is updated in place: whatever pages have been
\* rendered, the loaded table, in the cache and as df of a run, has the
\* columns and rows load_data returned, and every page is what it is on a
\* freshly loaded table.
C11_NothingUpdatedInPlace ==
    /\ cache.loaded => cache = Fresh
    /\ \A s \in Sessions : df[s].loaded => df[s] = Fresh
    /\ AsOnFresh(view)

\* C11 amended: the Trends page writes its two derived columns into the
\* df of its own run and into nothing else: the cache entry keeps the
\* columns and rows load_data returned, every run starts from that table,
\* and every page is what it is on a freshly loaded table.
C11_SnapshotKept ==
    /\ cache.loaded => cache = Fresh
    /\ \A s \in Sessions :
          /\ pc[s] = "page" => df[s] = Fresh
          /\ df[s].loaded =>
                \/ df[s] = Fresh
                \/ df[s] = [Fresh EXCEPT !.rows = with_month_and_year(Fresh.rows)]
    /\ AsOnFresh(view)

\* one session has rendered Trends and holds the widened df; after it the
\* other has loaded and rendered the Overview page
C11_Witness ==
    /\ source # <<>>
    /\ view.page = "Overview"
    /\ \E s, u \in Sessions :
          /\ df[s].loaded /\ df[s] # Fresh
          /\ DOMAIN df[s].rows[1] = DOMAIN source[1] \cup {"OrderMonth", "Year"}
          /\ df[u] = Fresh
          /\ pc[u] = "idle"

=============================================================================
